---- MODULE Spec2Model ----
(***************************************************************************)
(* Verification model of cb_core's retrieval/tool framework:               *)
(*   builder_package/core/http_retriever.py      (HTTPRetriever,           *)
(*                                                ModelHTTPRetriever)      *)
(*   builder_package/core/qb_user_data_retriever.py                        *)
(*   builder_package/core/qb_data_size_retriever.py                        *)
(*   builder_package/core/qb_data_schema_retriever.py                      *)
(*   builder_package/core/itool_call.py          (ToolCallResult)          *)
(*                                                                         *)
(* Python's None is the empty tuple, a present value x is <<x>>.           *)
(***************************************************************************)
EXTENDS Integers, Sequences, FiniteSets, TLC

VARIABLES
    cfg,             \* [Insts -> constructor arguments of the retriever]
    save_file_path,  \* [Insts -> self.save_file_path]
    start_pos,       \* [Insts -> self.start_pos]
    files,           \* the file system: path -> sequence of lines
    upstream,        \* number of records the queried table holds upstream
    pc,              \* [Insts -> where call_tool() of the instance stands]
    responses,       \* [Insts -> the local list `responses` of _call_api]
    log,             \* [Insts -> what the running/last call_tool has done]
    ret,             \* [Insts -> outcome of retrieve() in the last call_tool]
    result,          \* [Insts -> outcome of the last call_tool]
    calls,           \* [Insts -> number of call_tool invocations so far]
    written,         \* [Insts -> lines the running cache() has written]
    tcr,             \* last ToolCallResult.success call: arguments, outcome,
                     \* and what to_dict() gave on the result
    memory,          \* the STMemory object
    added,           \* the arguments of the add_message calls so far, in order
    before,          \* what conversation_history_before_last_user_turn()
                     \* returned, if called since the last add_message
    parser,          \* the IntentClassifierOutputParser object
    parse,           \* the last set_success call on it: its argument, the
                     \* parser before it, its outcome
    output,          \* what get_output() returned, if called since the
                     \* last set_success or set_error
    server,          \* the IIntentServer object, None before it is constructed
    served,          \* the last serve() call on it: its input, the gathered
                     \* slots before it, the hooks it invoked, its outcome
    registry,        \* IntentRegistry.intents_to_handlers
    regcalls         \* the register calls so far, in order, and the server()
                     \* call made since the last of them, if any

vars == <<cfg, save_file_path, start_pos, files, upstream, pc, responses,
          log, ret, result, calls, written, tcr, memory, added, before,
          parser, parse, output, server, served, registry, regcalls>>

memoryVars == <<memory, added, before>>

parserVars == <<parser, parse, output>>

registryVars == <<registry, regcalls>>

serverVars == <<server, served, registryVars>>

dialogVars == <<memoryVars, parserVars, serverVars>>

retrieverVars == <<cfg, save_file_path, start_pos, files, upstream, pc,
                   responses, log, ret, result, calls, written>>

-----------------------------------------------------------------------------
(* Bounds of the model *)

\* call_tool invocations per retriever instance
MaxCalls == 2

\* page requests of one _call_api loop that the model follows
MaxFetches == 4

-----------------------------------------------------------------------------
(* Python values *)

None == <<>>

Some(x) == <<x>>

Val(o) == o[1]

Returned(v) == [tag |-> "returned", val |-> v]

Raised(e) == [tag |-> "raised", exc |-> e]

\* Retriever objects built for one request
Insts == {1, 2}

\* self.page_size
page_size == 100

\* self.start_pos after construction
initial_start_pos == 1

\* An exception object: defining module, class name, str(e) and e.response
\* (the status code of the response object; None when e.response is None).
Exc(mod, name, msg, response) ==
    [module |-> mod, name |-> name, msg |-> msg, response |-> response]

\* requests.exceptions.HTTPError; raise_for_status() attaches the response
RequestsHTTPError(status) ==
    Exc("requests.exceptions", "HTTPError", "http_error", status)

PyException(msg) == Exc("builtins", "Exception", msg, None)

ValueError(msg) == Exc("builtins", "ValueError", msg, None)

AssertionError(msg) == Exc("builtins", "AssertionError", msg, None)

AttributeError(msg) == Exc("builtins", "AttributeError", msg, None)

ConnectionError == Exc("requests.exceptions", "ConnectionError", "connection", None)

-----------------------------------------------------------------------------
(* Queries: a query string is the sequence of its blank-separated words *)

Q_ORDERED == <<"SELECT", "*", "FROM", "Bill", "ORDER", "BY", "Id">>

Q_LOWER == <<"select", "*", "from", "Bill", "order", "by", "Id">>

Q_COLS == <<"SELECT", "Id", "FROM", "Bill", "ORDER", "BY", "Id">>

Q_ALL == <<"SELECT", "*", "FROM", "Bill">>

Q_COUNT == <<"SELECT", "COUNT(*)", "FROM", "Bill">>

Q_COUNT_LOWER == <<"SELECT", "count(*)", "FROM", "Bill">>

\* str.upper() on the words of the queries above
Upper(w) ==
    CASE w = "select" -> "SELECT"
      [] w = "from" -> "FROM"
      [] w = "order" -> "ORDER"
      [] w = "by" -> "BY"
      [] w = "count(*)" -> "COUNT(*)"
      [] w = "Bill" -> "BILL"
      [] w = "Id" -> "ID"
      [] OTHER -> w

UpperQ(q) == [k \in 1..Len(q) |-> Upper(q[k])]

\* `"A B" in q` for two words
HasPair(q, a, b) == \E k \in 1..(Len(q) - 1) : q[k] = a /\ q[k + 1] = b

\* `"A" in q` for one word
HasWord(q, a) == \E k \in 1..Len(q) : q[k] = a

\* hashlib.sha256(json.dumps(...)).hexdigest()[:6] of {"query": q} (params of
\* ModelHTTPRetriever, QBUserDataRetriever) and of q (QBDataSizeRetriever)
params_hash_6chars(q, asDict) ==
    CASE q = Q_ORDERED -> IF asDict THEN "e3fc8c" ELSE "992c31"
      [] q = Q_LOWER -> IF asDict THEN "3c6203" ELSE "3a6ac3"
      [] q = Q_COLS -> IF asDict THEN "ac3d6e" ELSE "a219f4"
      [] q = Q_ALL -> IF asDict THEN "5cf856" ELSE "5d25fd"
      [] q = Q_COUNT -> IF asDict THEN "8f0b40" ELSE "6079fb"
      [] q = Q_COUNT_LOWER -> IF asDict THEN "5ffb80" ELSE "db14b8"
      [] OTHER -> "44136f"

-----------------------------------------------------------------------------
(* Constructor arguments *)

Kinds == {"ModelHTTPRetriever", "QBUserDataRetriever",
          "QBDataSizeRetriever", "QBDataSchemaRetriever"}

\* save_file_path: None, 'default', or a file path of the caller's choice
SavePaths == {None, Some(<<"default">>), Some(<<"custom.jsonl">>)}

Config(kind, query, erc, table, save) ==
    [kind |-> kind, endpoint |-> "query", query |-> query,
     expected_row_count |-> erc, table_name |-> table, save |-> save]

\* params = {"query": q}
ModelConfigs ==
    {Config("ModelHTTPRetriever", Some(q), None, "", s) :
        q \in {Q_ALL, Q_LOWER}, s \in SavePaths}

\* a missing query is params = {} (no 'query' key)
UserDataConfigs ==
    {Config("QBUserDataRetriever", q, e, "", s) :
        q \in {Some(Q_ORDERED), Some(Q_LOWER), Some(Q_COLS), Some(Q_ALL), None},
        e \in {None, Some(-1), Some(250), Some(1000), Some(1001)},
        s \in SavePaths}

DataSizeConfigs ==
    {Config("QBDataSizeRetriever", Some(q), None, "", s) :
        q \in {Q_COUNT, Q_COUNT_LOWER, Q_ALL}, s \in SavePaths}

DataSchemaConfigs ==
    {Config("QBDataSchemaRetriever", None, None, "Bill", s) : s \in SavePaths}

Configs == ModelConfigs \cup UserDataConfigs \cup DataSizeConfigs
           \cup DataSchemaConfigs

-----------------------------------------------------------------------------
(* Methods of the concrete retrievers *)

\* params.get('query', '') / self.query
QueryOrEmpty(c) == IF c.query = None THEN <<>> ELSE Val(c.query)

\* extract_query_response_key: the word after the first FROM of the
\* upper-cased query, "Unknown" without a query or a FROM
extract_query_response_key(c) ==
    IF c.kind = "QBDataSchemaRetriever" THEN c.table_name
    ELSE LET q == QueryOrEmpty(c)
             froms == {k \in 1..(Len(q) - 1) : Upper(q[k]) = "FROM"}
         IN IF froms = {} THEN "Unknown"
            ELSE q[(CHOOSE k \in froms : \A m \in froms : k <= m) + 1]

\* _cache_key
cache_key(c) ==
    CASE c.kind = "ModelHTTPRetriever" ->
            <<"model_http_retriever", c.endpoint, extract_query_response_key(c),
              params_hash_6chars(QueryOrEmpty(c), TRUE)>>
      [] c.kind = "QBUserDataRetriever" ->
            <<"qb_user_data_retriever", c.endpoint, extract_query_response_key(c),
              params_hash_6chars(QueryOrEmpty(c), TRUE)>>
      [] c.kind = "QBDataSizeRetriever" ->
            <<"qb_data_size_retriever", extract_query_response_key(c),
              params_hash_6chars(QueryOrEmpty(c), FALSE)>>
      [] OTHER ->
            <<"qb_data_schema_retriever", c.table_name>>

\* f"{self._cache_key()}.jsonl"
KeyFile(c) == <<cache_key(c), ".jsonl">>

\* is_query_valid as call_tool uses it: Returned(TRUE) or the exception
is_query_valid(c) ==
    CASE c.kind = "QBUserDataRetriever" ->
            IF ~HasPair(UpperQ(QueryOrEmpty(c)), "SELECT", "*")
            THEN Raised(ValueError("select_star"))
            ELSE IF ~HasPair(QueryOrEmpty(c), "ORDER", "BY")
            THEN Raised(ValueError("order_by"))
            ELSE IF c.expected_row_count = None \/ Val(c.expected_row_count) < 0
            THEN Raised(ValueError("row_count_low"))
            ELSE IF Val(c.expected_row_count) > 1000
            THEN Raised(ValueError("row_count_high"))
            ELSE Returned(TRUE)
      [] c.kind = "QBDataSizeRetriever" ->
            Returned(HasWord(QueryOrEmpty(c), "COUNT(*)"))
      [] OTHER -> Returned(TRUE)

\* call_tool without its validation statement
Validate_skipped(c) == Returned(TRUE)

\* The validation statement that opens call_tool's try block
Validate(c) ==
    CASE c.kind = "QBUserDataRetriever" -> is_query_valid(c)
      [] c.kind = "QBDataSizeRetriever" ->
            IF is_query_valid(c).val THEN Returned(TRUE)
            ELSE Raised(AssertionError("query_invalid"))
      [] OTHER -> Returned(TRUE)

\* _get_params: the query sent, with the pagination words it carries
get_params(c, sp) ==
    CASE c.kind = "QBUserDataRetriever" ->
            [query |-> Val(c.query), startposition |-> Some(sp),
             maxresults |-> Some(page_size)]
      [] c.kind = "QBDataSchemaRetriever" ->
            [query |-> <<"SELECT", "*", "FROM", c.table_name>>,
             startposition |-> None, maxresults |-> Some(1)]
      [] OTHER ->
            [query |-> QueryOrEmpty(c), startposition |-> None,
             maxresults |-> None]

-----------------------------------------------------------------------------
(* The upstream HTTP API *)

Min(a, b) == IF a < b THEN a ELSE b

Max(a, b) == IF a > b THEN a ELSE b

\* A page response: {"QueryResponse": {<key>: [<items> records],
\* "startPosition": p}}. QueryResponse is "records", "totalCount" (the answer
\* to a COUNT(*) query), "empty" ({}) or "absent" (no such key).
Page(shape, key, items, pos) ==
    [QueryResponse |-> shape, key |-> key, items |-> items, startPosition |-> pos]

\* Shapes of a page that carries no record
EmptyShapes == {"empty", "absent"}

\* Status codes raise_for_status() raises for
Statuses == {400, 429}

\* The entity a query selects from
TableOf(q) ==
    LET froms == {k \in 1..(Len(q) - 1) : Upper(q[k]) = "FROM"}
    IN q[(CHOOSE k \in froms : \A m \in froms : k <= m) + 1]

\* The pages the API may answer a request with when the table holds n
\* records: STARTPOSITION defaults to 1 and MAXRESULTS to the page size.
\* Without a record to send, QueryResponse is {}, missing, or holds the
\* empty list ({"QueryResponse": {<key>: []}})
Serve(req, n) ==
    LET pos == IF req.startposition = None THEN 1 ELSE Val(req.startposition)
        max == IF req.maxresults = None THEN page_size ELSE Val(req.maxresults)
        items == Min(max, Max(0, n - pos + 1))
        key == TableOf(req.query)
    IN IF HasWord(UpperQ(req.query), "COUNT(*)")
       THEN {Page("totalCount", key, 0, pos)}
       ELSE IF items > 0 THEN {Page("records", key, items, pos)}
       ELSE {Page(sh, key, 0, pos) : sh \in EmptyShapes \cup {"records"}}

-----------------------------------------------------------------------------
(* HTTPRetriever *)

\* _to_json: the page and len(QueryResponse.get(key, []))
to_json(c, page) ==
    <<page,
      IF page.QueryResponse = "records" /\ page.key = extract_query_response_key(c)
      THEN page.items ELSE 0>>

\* len(page): the QueryResponse key itself is counted
page_len(page) ==
    IF page.QueryResponse = "absent" THEN 0 ELSE 1

\* len(page.get('QueryResponse', {}))
query_response_len(page) ==
    IF page.QueryResponse \in {"empty", "absent"} THEN 0 ELSE 1

\* json.dumps(response) + '\n': the line of text that encodes the page
json_dumps(page) == [line |-> page]

\* json.loads(line)
json_loads(line) == line.line

\* bool(self.save_file_path)
Truthy(sfp) == sfp # None /\ sfp # Some(<<"">>)

\* The first statement of try_cache and of cache
ResolveDefault(sfp, c) ==
    IF sfp = Some(<<"default">>) THEN Some(KeyFile(c)) ELSE sfp

\* try_cache looking for the file under the unresolved save_file_path
try_cache_unresolved(sfp, c, fs) ==
    [path |-> ResolveDefault(sfp, c),
     responses |->
        IF Truthy(sfp) /\ Val(sfp) \in DOMAIN fs
        THEN Some([k \in 1..Len(fs[Val(sfp)]) |-> json_loads(fs[Val(sfp)][k])])
        ELSE None]

\* try_cache: the new save_file_path and the cached pages (None on a miss)
try_cache(sfp, c, fs) ==
    LET path == ResolveDefault(sfp, c)
    IN [path |-> path,
        responses |->
            IF Truthy(path) /\ Val(path) \in DOMAIN fs
            THEN Some([k \in 1..Len(fs[Val(path)]) |-> json_loads(fs[Val(path)][k])])
            ELSE None]

\* cache writing the first page only
cache_first_page(sfp, c, fs, rs) ==
    LET path == ResolveDefault(sfp, c)
        old == IF Val(path) \in DOMAIN fs THEN fs[Val(path)] ELSE <<>>
        new == old \o <<json_dumps(rs[1])>>
    IN [path |-> path,
        files |-> IF Truthy(path)
                  THEN [f \in DOMAIN fs \cup {Val(path)} |->
                            IF f = Val(path) THEN new ELSE fs[f]]
                  ELSE fs]

\* cache: the new save_file_path and the file system after the append
cache(sfp, c, fs, rs) ==
    LET path == ResolveDefault(sfp, c)
        old == IF Val(path) \in DOMAIN fs THEN fs[Val(path)] ELSE <<>>
        new == old \o [k \in 1..Len(rs) |-> json_dumps(rs[k])]
    IN [path |-> path,
        files |-> IF Truthy(path)
                  THEN [f \in DOMAIN fs \cup {Val(path)} |->
                            IF f = Val(path) THEN new ELSE fs[f]]
                  ELSE fs]

\* open(self.save_file_path, 'w'): the file is emptied
cache_open_truncate(sfp, c, fs) ==
    LET path == ResolveDefault(sfp, c)
    IN [path |-> path,
        files |-> IF Truthy(path)
                  THEN [f \in DOMAIN fs \cup {Val(path)} |->
                            IF f = Val(path) THEN <<>> ELSE fs[f]]
                  ELSE fs]

\* cache up to open(self.save_file_path, 'a'): a missing file is created
\* empty, an existing one is kept
cache_open(sfp, c, fs) ==
    LET path == ResolveDefault(sfp, c)
    IN [path |-> path,
        files |-> IF Truthy(path)
                  THEN [f \in DOMAIN fs \cup {Val(path)} |->
                            IF f \in DOMAIN fs THEN fs[f] ELSE <<>>]
                  ELSE fs]

\* f.write(json.dumps(response) + '\n') on the file opened for appending
cache_write(path, fs, response) ==
    [fs EXCEPT ![Val(path)] = Append(@, json_dumps(response))]

\* retrieve() caching in a finally clause the pages fetched so far
call_api_raised_caching(sfp, c, fs, rs) ==
    IF rs = <<>> THEN fs ELSE cache(sfp, c, fs, rs).files

\* The file system after _call_api raised with the pages rs fetched so
\* far: retrieve() has no handler, its cache(responses) is not reached
call_api_raised(sfp, c, fs, rs) == fs

-----------------------------------------------------------------------------
(* ToolCallResult *)

\* ToolCallResult.__init__
ToolCallResult ==
    [status |-> None, tool_name |-> None, error_type |-> None,
     error_message |-> None, status_code |-> None, file_name |-> None,
     data |-> None, sample |-> None]

\* success that lets data win when both are given
success_data_wins(tool_name, file_name, data, sample) ==
    LET r == [ToolCallResult EXCEPT !.status = Some("success"),
                                    !.tool_name = Some(tool_name),
                                    !.file_name = Some(file_name)]
    IN IF data # None THEN Returned([r EXCEPT !.data = data])
       ELSE IF sample # None THEN Returned([r EXCEPT !.sample = sample])
       ELSE Raised(ValueError("data or sample must be provided"))

\* ToolCallResult.success: Returned(result) or Raised(ValueError)
success(tool_name, file_name, data, sample) ==
    LET r == [ToolCallResult EXCEPT !.status = Some("success"),
                                    !.tool_name = Some(tool_name),
                                    !.file_name = Some(file_name)]
    IN IF data # None /\ sample # None
       THEN Raised(ValueError("data and sample cannot be provided together"))
       ELSE IF data # None THEN Returned([r EXCEPT !.data = data])
       ELSE IF sample # None THEN Returned([r EXCEPT !.sample = sample])
       ELSE Raised(ValueError("data or sample must be provided"))

\* ToolCallResult.error
error(tool_name, error_type, error_message, status_code) ==
    [ToolCallResult EXCEPT !.status = Some("error"),
                           !.tool_name = Some(tool_name),
                           !.error_type = Some(error_type),
                           !.error_message = Some(error_message),
                           !.status_code = status_code]

\* ToolCallResult.to_dict_wo_content: Returned(dict) or Raised(exception)
to_dict_wo_content(r) ==
    IF r.status = None THEN Raised(PyException("Tool call result is not set"))
    ELSE IF r.status = Some("success")
    THEN Returned([status |-> r.status, tool_name |-> r.tool_name,
                   content |-> [file_name |-> r.file_name]])
    ELSE IF r.status = Some("error")
    THEN Returned([status |-> r.status, tool_name |-> r.tool_name,
                   content |-> [error_type |-> r.error_type,
                                error_message |-> r.error_message,
                                status_code |-> r.status_code]])
    ELSE Raised(ValueError("status must be success or error"))

\* to_dict that copies both success fields into the content
to_dict_both_fields(r) ==
    LET wo == to_dict_wo_content(r)
    IN IF wo.tag = "raised" THEN wo
       ELSE IF r.status = Some("success")
       THEN Returned([wo.val EXCEPT !.content =
                         @ @@ [data |-> r.data, sample |-> r.sample]])
       ELSE wo

\* ToolCallResult.to_dict
to_dict(r) ==
    LET wo == to_dict_wo_content(r)
    IN IF wo.tag = "raised" THEN wo
       ELSE IF r.status = Some("success")
       THEN IF r.data # None
            THEN Returned([wo.val EXCEPT !.content = @ @@ [data |-> r.data]])
            ELSE IF r.sample # None
            THEN Returned([wo.val EXCEPT !.content = @ @@ [sample |-> r.sample]])
            ELSE Raised(ValueError("data or sample must be provided"))
       ELSE wo

-----------------------------------------------------------------------------
(* call_tool of the four retriever tools *)

tool_name(c) ==
    CASE c.kind = "ModelHTTPRetriever" -> "qb_http_retriever"
      [] c.kind = "QBUserDataRetriever" -> "qb_user_data_retriever"
      [] c.kind = "QBDataSizeRetriever" -> "qb_data_size_retriever"
      [] OTHER -> "qb_data_schema_retriever"

\* The module whose HTTPError class the retriever's file imports
ImportedHTTPError(c) ==
    IF c.kind = "QBDataSchemaRetriever" THEN "urllib.error"
    ELSE "requests.exceptions"

\* extract_result_summary
extract_result_summary(c, sfp, rs) ==
    CASE c.kind = "ModelHTTPRetriever" ->
            IF Len(rs) > 0
            THEN Returned([api_calls |-> Len(rs), sample |-> rs[1]])
            ELSE Raised(PyException("Expected list of results"))
      [] c.kind = "QBUserDataRetriever" ->
            IF Len(rs) > 0
            THEN Returned([api_calls |-> Len(rs), stored_in |-> sfp])
            ELSE Raised(PyException("Expected list of results"))
      [] OTHER -> Raised(Exc("builtins", "NotImplementedError", "Not implemented", None))

\* The statements of call_tool's try block that follow retrieve(), whose
\* outcome is ro
TryBlock(c, sfp, ro) ==
    IF ro.tag = "raised" THEN ro
    ELSE IF Len(ro.val) = 0 \/ query_response_len(ro.val[1]) = 0
    THEN Returned(error(tool_name(c), "NoData", "No data found", None))
    ELSE CASE c.kind = "ModelHTTPRetriever" ->
                LET s == extract_result_summary(c, sfp, ro.val)
                IN IF s.tag = "raised" THEN s
                   ELSE success(tool_name(c), KeyFile(c), None, Some(s.val))
           [] c.kind = "QBUserDataRetriever" ->
                LET s == extract_result_summary(c, sfp, ro.val)
                IN IF s.tag = "raised" THEN s
                   ELSE success(tool_name(c), KeyFile(c), Some(s.val), None)
           [] OTHER ->
                success(tool_name(c), KeyFile(c), Some(ro.val[1]), None)

\* The except clauses of call_tool applied to the try block's outcome o
ExceptClauses(c, o) ==
    IF o.tag = "returned" THEN o
    ELSE IF o.exc.name = "HTTPError" /\ o.exc.module = ImportedHTTPError(c)
    THEN IF o.exc.response = None
         THEN Raised(AttributeError("'NoneType' object has no attribute 'status_code'"))
         ELSE Returned(error(tool_name(c), o.exc.name, o.exc.msg, o.exc.response))
    ELSE Returned(error(tool_name(c), o.exc.name, o.exc.msg, None))

-----------------------------------------------------------------------------
(* STMemory: the conversation history and the slot map *)

\* SlotName members the messages carry
SlotNames == {"location", "hotel_name"}

\* Python dicts are functions on their key sets; {} is the empty function
EmptyDict == <<>>

\* dict.setdefault for every item of e: a key already present keeps its value
dict_setdefault(d, e) ==
    [k \in DOMAIN d \cup DOMAIN e |-> IF k \in DOMAIN d THEN d[k] ELSE e[k]]

\* dict.update(e): every item of e is set in d, the other items of d stay
dict_update(d, e) ==
    [k \in DOMAIN d \cup DOMAIN e |-> IF k \in DOMAIN e THEN e[k] ELSE d[k]]

\* TMessage: the fields STMemory reads
TMessage(role, content, slots) ==
    [role |-> role, content |-> content, slots |-> slots]

\* STMemory(user_id): both collections start empty
STMemory(user_id) ==
    [user_id |-> user_id, conversation_history |-> <<>>, slots |-> EmptyDict]

\* add_message that puts the message in front of the history
add_message_front(m, message) ==
    [m EXCEPT !.conversation_history = <<message>> \o @,
              !.slots = dict_update(@, message.slots)]

add_message(m, message) ==
    [m EXCEPT !.conversation_history = Append(@, message),
              !.slots = dict_update(@, message.slots)]

get_conversation_history(m) == m.conversation_history

\* "\n".join(f"{m.role}: {m.content}" for m in ms): a string is the
\* sequence of its pieces, the empty string the empty sequence
RECURSIVE join_lines(_)
join_lines(ms) ==
    IF Len(ms) = 0 THEN <<>>
    ELSE IF Len(ms) = 1 THEN <<ms[1].role, ": ", ms[1].content>>
    ELSE <<ms[1].role, ": ", ms[1].content, "\n">> \o join_lines(Tail(ms))

conversation_summary(m) == join_lines(m.conversation_history)

\* The loop of last_user_turn from index down to 0 (Python indices: the
\* message at index k is h[k + 1]); -1 when no user message is found
RECURSIVE last_user_turn_from(_, _)
last_user_turn_from(h, index) ==
    IF index < 0 THEN -1
    ELSE IF h[index + 1].role = "user" THEN index
    ELSE last_user_turn_from(h, index - 1)

last_user_turn_index(m) ==
    last_user_turn_from(m.conversation_history, Len(m.conversation_history) - 1)

\* The loop of conversation_history_before_last_user_turn from idx down to
\* 0: the index of the bot message it stops at, -1 when it finds none
RECURSIVE last_bot_from(_, _)
last_bot_from(h, idx) ==
    IF idx < 0 THEN -1
    ELSE IF h[idx + 1].role = "bot" THEN idx
    ELSE last_bot_from(h, idx - 1)

\* conversation_history_before_last_user_turn without the search for a bot
\* message
before_last_user_turn_no_bot_search(m) ==
    LET h == m.conversation_history
        last_user_idx == last_user_turn_index(m)
    IN IF last_user_idx <= 0 THEN <<>>
       ELSE join_lines(SubSeq(h, 1, last_user_idx))

conversation_history_before_last_user_turn(m) ==
    LET h == m.conversation_history
        last_user_idx == last_user_turn_index(m)
    IN IF last_user_idx <= 0 THEN <<>>
       ELSE LET idx == last_bot_from(h, last_user_idx - 1)
            IN IF idx >= 0
               THEN join_lines(SubSeq(h, 1, idx + 1))
               ELSE join_lines(SubSeq(h, 1, last_user_idx))

-----------------------------------------------------------------------------
(* IntentClassifierOutputParser *)

\* IntentName members, by value
IntentNames ==
    {"search_hotels", "get_listing_details", "book_listing", "get_booking",
     "cancel_booking", "agent_building", "retriever_building", "qb", "other"}

\* SGDUserDialogAct members: the name of each is also its value
DialogActs ==
    {"INFORM_INTENT", "NEGATE_INTENT", "AFFIRM_INTENT", "INFORM", "REQUEST",
     "AFFIRM", "NEGATE", "SELECT", "REQUEST_ALTS", "THANK_YOU", "GOODBYE",
     "GREETING"}

\* SlotName members the classifier answers name, by value
ClassifierSlotNames == SlotNames \cup {"check_in", "guests"}

\* str.lower() on the strings of the model
Lower(w) ==
    CASE w = "SEARCH_HOTELS" -> "search_hotels"
      [] w = "Book_Listing" -> "book_listing"
      [] w = "INFORM_INTENT" -> "inform_intent"
      [] w = "NEGATE_INTENT" -> "negate_intent"
      [] w = "AFFIRM_INTENT" -> "affirm_intent"
      [] w = "INFORM" -> "inform"
      [] w = "REQUEST" -> "request"
      [] w = "AFFIRM" -> "affirm"
      [] w = "Affirm" -> "affirm"
      [] w = "NEGATE" -> "negate"
      [] w = "SELECT" -> "select"
      [] w = "REQUEST_ALTS" -> "request_alts"
      [] w = "THANK_YOU" -> "thank_you"
      [] w = "GOODBYE" -> "goodbye"
      [] w = "GREETING" -> "greeting"
      [] w = "Location" -> "location"
      [] OTHER -> w

\* JSON values
JNull == [t |-> "null"]

JStr(str) == [t |-> "str", v |-> str]

JNum(n) == [t |-> "num", v |-> n]

\* A JSON object: its items in the order of the text
JObj(items) == [t |-> "obj", items |-> items]

\* An object key is the sequence of its pieces, "intent1" being
\* <<"intent", "1">>; `piece in key`
InKey(piece, key) == \E k \in 1..Len(key) : key[k] = piece

\* One line of a response: blank, a code-fence marker, the text of a JSON
\* value, or any other text
BlankLine == [kind |-> "blank"]

FenceLine(lang) == [kind |-> "fence", lang |-> lang]

JsonLine(value) == [kind |-> "json", value |-> value]

TextLine(text) == [kind |-> "text", text |-> text]

JSONDecodeError == Exc("json.decoder", "JSONDecodeError", "Expecting value", None)

\* json.loads(line)
json_loads_line(line) ==
    IF line.kind = "json" THEN Returned(line.value) ELSE Raised(JSONDecodeError)

\* str.strip() on a response: leading and trailing blank lines go
RECURSIVE lstrip(_)
lstrip(lines) ==
    IF Len(lines) > 0 /\ lines[1].kind = "blank" THEN lstrip(Tail(lines))
    ELSE lines

RECURSIVE rstrip(_)
rstrip(lines) ==
    IF Len(lines) > 0 /\ lines[Len(lines)].kind = "blank"
    THEN rstrip(SubSeq(lines, 1, Len(lines) - 1))
    ELSE lines

strip(lines) == rstrip(lstrip(lines))

\* set_success lines 113-117: the code block markers are removed when the
\* stripped response starts with one
strip_code_block(response_content) ==
    LET stripped == strip(response_content)
    IN IF Len(stripped) > 0 /\ stripped[1].kind = "fence"
       THEN LET opened == Tail(stripped)
                closed == IF Len(opened) > 0 /\ opened[Len(opened)] = FenceLine("")
                          THEN SubSeq(opened, 1, Len(opened) - 1)
                          ELSE opened
            IN strip(closed)
       ELSE stripped

\* [line for line in response_content.splitlines() if line.strip()]
non_blank_lines(lines) == SelectSeq(lines, LAMBDA line : line.kind # "blank")

\* What a method call on a value without that method raises
NoAttribute(value, attr) ==
    IF attr = "lower" THEN AttributeError("object has no attribute 'lower'")
    ELSE AttributeError("object has no attribute 'items'")

\* The member of an enum whose lowered value is parsed, None when there is
\* none: the loops of search_for_intent, search_for_dialog_act and
\* search_for_slot
Member(enum, parsed) ==
    IF \E e \in enum : Lower(e) = parsed
    THEN Some(CHOOSE e \in enum : Lower(e) = parsed)
    ELSE None

\* search_for_intent that compares without lowering the parsed name
search_for_intent_exact(parsed_intent) ==
    IF parsed_intent.t # "str" THEN Raised(NoAttribute(parsed_intent, "lower"))
    ELSE Returned(IF parsed_intent.v \in IntentNames
                  THEN Some(parsed_intent.v) ELSE None)

\* search_for_intent: Returned(member or None), or Raised when the value is
\* no string
search_for_intent(parsed_intent) ==
    IF parsed_intent.t # "str" THEN Raised(NoAttribute(parsed_intent, "lower"))
    ELSE Returned(Member(IntentNames, Lower(parsed_intent.v)))

search_for_dialog_act(parsed_dialog_act) ==
    IF parsed_dialog_act.t # "str"
    THEN Raised(NoAttribute(parsed_dialog_act, "lower"))
    ELSE Returned(Member(DialogActs, Lower(parsed_dialog_act.v)))

search_for_slot(parsed_slot) == Member(ClassifierSlotNames, Lower(parsed_slot))

\* IntentClassifierOutputParser.__init__: the lists and the dict are present
\* and empty
IntentClassifierOutputParser ==
    [intents |-> Some(<<>>), dialog_acts |-> Some(<<>>), slots |-> EmptyDict,
     error_reason |-> None]

\* The loop over value.items() of set_success's else branch
RECURSIVE set_slots(_, _)
set_slots(slots, items) ==
    IF Len(items) = 0 THEN slots
    ELSE LET known_slot == search_for_slot(items[1][1])
         IN set_slots(IF known_slot # None
                      THEN dict_update(slots, [k \in {Val(known_slot)} |-> items[1][2]])
                      ELSE slots,
                      Tail(items))

\* The body of `for key, value in obj.items()`: the parser after it, and the
\* exception it raised if any
process_item(p, key, value) ==
    IF InKey("intent", key) /\ value # JNull
    THEN LET known_intent == search_for_intent(value)
         IN IF known_intent.tag = "raised"
            THEN [parser |-> p, exc |-> Some(known_intent.exc)]
            ELSE IF known_intent.val # None
            THEN [parser |-> [p EXCEPT !.intents =
                                 Some(Append(Val(@), Val(known_intent.val)))],
                  exc |-> None]
            ELSE [parser |-> p, exc |-> None]
    ELSE IF InKey("dialog_act", key)
    THEN LET known_dialog_act == search_for_dialog_act(value)
         IN IF known_dialog_act.tag = "raised"
            THEN [parser |-> p, exc |-> Some(known_dialog_act.exc)]
            ELSE IF known_dialog_act.val # None
            THEN [parser |-> [p EXCEPT !.dialog_acts =
                                 Some(Append(Val(@), Val(known_dialog_act.val)))],
                  exc |-> None]
            ELSE [parser |-> p, exc |-> None]
    ELSE IF value.t # "obj"
    THEN [parser |-> p, exc |-> Some(NoAttribute(value, "items"))]
    ELSE [parser |-> [p EXCEPT !.slots = set_slots(@, value.items)],
          exc |-> None]

\* `for key, value in obj.items()` from the first of items on
RECURSIVE process_items(_, _)
process_items(p, items) ==
    IF Len(items) = 0 THEN [parser |-> p, exc |-> None]
    ELSE LET r == process_item(p, items[1][1], items[1][2])
         IN IF r.exc # None THEN r
            ELSE process_items(r.parser, Tail(items))

\* The body of `for line in lines`
process_line(p, line) ==
    LET obj == json_loads_line(line)
    IN IF obj.tag = "raised" THEN [parser |-> p, exc |-> Some(obj.exc)]
       ELSE IF obj.val.t # "obj"
       THEN [parser |-> p, exc |-> Some(NoAttribute(obj.val, "items"))]
       ELSE process_items(p, obj.val.items)

\* `for line in lines` from line number k on: the parser at the end, the
\* outcome of set_success, and the number of lines whose body completed
RECURSIVE process_lines(_, _, _)
process_lines(p, lines, k) ==
    IF k > Len(lines)
    THEN [parser |-> p, out |-> Returned("self"), done |-> Len(lines)]
    ELSE LET r == process_line(p, lines[k])
         IN IF r.exc # None
            THEN [parser |-> r.parser, out |-> Raised(Val(r.exc)), done |-> k - 1]
            ELSE process_lines(r.parser, lines, k + 1)

\* IntentClassifierOutputParser.set_success
set_success(p, response_content) ==
    process_lines(p, non_blank_lines(strip_code_block(response_content)), 1)

\* IntentClassifierOutputParser.set_error
set_error(p, error_reason) == [p EXCEPT !.error_reason = Some(error_reason)]

\* get_output whose flag also looks at error_reason
get_output_error_aware(p) ==
    [is_successful |-> p.intents # None /\ p.error_reason = None,
     intents |-> p.intents, dialog_acts |-> p.dialog_acts,
     error_reason |-> p.error_reason, slots |-> p.slots]

\* IntentClassifierOutputParser.get_output
get_output(p) ==
    [is_successful |-> p.intents # None,
     intents |-> p.intents, dialog_acts |-> p.dialog_acts,
     error_reason |-> p.error_reason, slots |-> p.slots]

-----------------------------------------------------------------------------
(* IIntentServer *)

\* TIntent: the input slot lists of an intent
TIntent(name, required_slots, optional_slots) ==
    [name |-> name, required_slots |-> required_slots,
     optional_slots |-> optional_slots]

\* HOTEL_BOOKING_INTENTS
HOTEL_BOOKING_INTENTS ==
    [i \in IntentNames |->
        CASE i = "search_hotels" ->
                TIntent(i, <<"location", "check_in", "check_out", "guests">>,
                        <<"price_range", "parking">>)
          [] i = "get_listing_details" -> TIntent(i, <<"hotel_name">>, <<>>)
          [] i = "book_listing" ->
                TIntent(i, <<"hotel_name", "check_in", "check_out", "guests">>,
                        <<"parking">>)
          [] i = "get_booking" -> TIntent(i, <<"booking_id">>, <<>>)
          [] i = "cancel_booking" ->
                TIntent(i, <<"booking_id", "cancellation_reason">>, <<>>)
          [] OTHER -> TIntent(i, <<>>, <<>>)]

\* `x in list`
InList(x, list) == \E k \in 1..Len(list) : list[k] = x

\* IIntentServer.__init__
IIntentServer(my_intent) ==
    [my_intent |-> my_intent, gathered_slots |-> EmptyDict,
     collab_servers |-> <<>>]

\* update_slots that merges every slot of the turn
update_slots_all(srv, slots) ==
    [srv EXCEPT !.gathered_slots = dict_update(@, slots)]

\* IIntentServer.update_slots: the server after it
update_slots(srv, slots) ==
    LET intent == HOTEL_BOOKING_INTENTS[srv.my_intent]
        merged == {slot_enum \in DOMAIN slots :
                      \/ InList(slot_enum, intent.required_slots)
                      \/ InList(slot_enum, intent.optional_slots)}
    IN [srv EXCEPT !.gathered_slots =
           [k \in DOMAIN @ \cup merged |->
               IF k \in merged THEN slots[k] ELSE @[k]]]

\* IIntentServer.missing_slots
missing_slots(srv) ==
    SelectSeq(HOTEL_BOOKING_INTENTS[srv.my_intent].required_slots,
              LAMBDA slot : slot \notin DOMAIN srv.gathered_slots)

\* IIntentServer.can_continue_with_request
can_continue_with_request(srv) ==
    <<Len(missing_slots(srv)) = 0, missing_slots(srv)>>

\* The abstract hooks, as the calls serve() makes: the arguments and what
\* the subclass returned
run_tools(input, returned) ==
    [hook |-> "run_tools", input |-> input, returned |-> returned]

use_tool_output(tools_output, input) ==
    [hook |-> "use_tool_output", tools_output |-> tools_output,
     input |-> input, returned |-> [response |-> "done", of |-> tools_output]]

handle_missing_slots(missing, input) ==
    [hook |-> "_handle_missing_slots", missing_slots |-> missing,
     input |-> input, returned |-> [response |-> "need", slots |-> missing]]

\* serve that does not look at the missing slots
serve_unchecked(srv, input, tools_output) ==
    LET upd == update_slots(srv, input.user_turn.slots)
        rt == run_tools(input, tools_output)
        uo == use_tool_output(rt.returned, input)
    IN [server |-> upd, hooks |-> <<rt, uo>>, out |-> Returned(uo.returned)]

\* serve that empties the gathered slots once the tools have run
serve_resetting(srv, input, tools_output) ==
    LET upd == update_slots(srv, input.user_turn.slots)
        cc == can_continue_with_request(upd)
    IN IF cc[1]
       THEN LET rt == run_tools(input, tools_output)
                uo == use_tool_output(rt.returned, input)
            IN [server |-> [upd EXCEPT !.gathered_slots = EmptyDict],
                hooks |-> <<rt, uo>>, out |-> Returned(uo.returned)]
       ELSE LET hm == handle_missing_slots(cc[2], input)
            IN [server |-> upd, hooks |-> <<hm>>, out |-> Returned(hm.returned)]

\* IIntentServer.serve, tools_output being what the subclass's run_tools
\* returns: the server after it, the hooks invoked in order, the outcome
serve(srv, input, tools_output) ==
    LET upd == update_slots(srv, input.user_turn.slots)
        cc == can_continue_with_request(upd)
    IN IF cc[1]
       THEN LET rt == run_tools(input, tools_output)
                uo == use_tool_output(rt.returned, input)
            IN [server |-> upd, hooks |-> <<rt, uo>>,
                out |-> Returned(uo.returned)]
       ELSE LET hm == handle_missing_slots(cc[2], input)
            IN [server |-> upd, hooks |-> <<hm>>, out |-> Returned(hm.returned)]

-----------------------------------------------------------------------------
(* IntentRegistry *)

KeyError(key) == Exc("builtins", "KeyError", key, None)

\* The class attribute intents_to_handlers: one dict for the process, empty
\* when the module is loaded
IntentRegistry == EmptyDict

\* IntentRegistry.register: the dict after it
register(reg, intent, handler) ==
    dict_update(reg, [k \in {intent} |-> handler])

\* server() written with dict.get: None for a key that is not there
registry_server_get(reg, intent) ==
    IF intent \in DOMAIN reg THEN Returned(Some(reg[intent])) ELSE Returned(None)

\* IntentRegistry.server: self.intents_to_handlers[intent]
registry_server(reg, intent) ==
    IF intent \in DOMAIN reg THEN Returned(Some(reg[intent]))
    ELSE Raised(KeyError(intent))

-----------------------------------------------------------------------------
(* State machine: call_tool() on the retriever instances *)

NoOutcome == [tag |-> "none"]

\* What one call_tool invocation has done so far
FreshLog ==
    [validated |-> FALSE,  \* the validation statement passed
     auth |-> "none",      \* outcome of connection.is_authorized()
     cache_reads |-> 0,    \* try_cache calls
     hit |-> FALSE,        \* try_cache found the file
     token_asked |-> 0,    \* get_valid_access_token_not_throws calls
     sent |-> <<>>,        \* HTTP requests issued: params, headers, self.start_pos
     cache_writes |-> 0]   \* cache calls

\* connection.is_authorized() is implemented outside the repository: it
\* answers, or raises (here: an HTTPError that carries no response object)
AuthOutcomes ==
    {Returned(TRUE), Returned(FALSE), Raised(RequestsHTTPError(None))}

\* connection.get_valid_access_token_not_throws()
TokenOutcomes == {None, Some(""), Some("token")}

\* get_headers() without the test of the token
get_headers_unchecked(tok) ==
    Returned([Authorization |-> <<"Bearer", tok>>, Accept |-> "application/json"])

\* get_headers(), tok being what get_valid_access_token_not_throws() gave:
\* None and the empty string are falsy
get_headers(tok) ==
    IF tok = None \/ tok = Some("")
    THEN Raised(PyException("No valid access token"))
    ELSE Returned([Authorization |-> <<"Bearer", tok>>, Accept |-> "application/json"])

\* What requests.get(...) followed by raise_for_status() may raise
RequestFailures ==
    {RequestsHTTPError(Some(st)) : st \in Statuses} \cup {ConnectionError}

\* Two retrievers constructed with the same arguments (the same request),
\* over a file system that holds no cache file, an empty one, or the cache
\* file of an earlier retrieval
InitRetrievers ==
    /\ \E c \in Configs : cfg = [i \in Insts |-> c]
    /\ save_file_path = [i \in Insts |-> cfg[i].save]
    /\ start_pos = [i \in Insts |-> initial_start_pos]
    /\ upstream \in {0, 50, 100, 250}
    /\ \E c \in Configs :
        /\ c = cfg[1]
        /\ LET path == ResolveDefault(c.save, c)
           IN IF Truthy(path)
              THEN files \in {<<>>,
                              [f \in {Val(path)} |-> <<>>],
                              [f \in {Val(path)} |->
                                 <<json_dumps(Page("records", "Bill", 7, 1))>>]}
              ELSE files = <<>>
    /\ pc = [i \in Insts |-> "idle"]
    /\ responses = [i \in Insts |-> <<>>]
    /\ log = [i \in Insts |-> FreshLog]
    /\ ret = [i \in Insts |-> NoOutcome]
    /\ result = [i \in Insts |-> NoOutcome]
    /\ calls = [i \in Insts |-> 0]
    /\ written = [i \in Insts |-> 0]

Init ==
    /\ InitRetrievers
    /\ tcr = [args |-> <<>>, out |-> NoOutcome, dict |-> NoOutcome]
    /\ memory = STMemory("user1")
    /\ added = <<>>
    /\ before = None
    /\ parser = IntentClassifierOutputParser
    /\ parse = [n |-> 0, response |-> <<>>, was |-> parser,
                out |-> NoOutcome, done |-> 0]
    /\ output = None
    /\ server = None
    /\ served = [n |-> 0, input |-> None, was |-> EmptyDict, hooks |-> <<>>,
                 out |-> NoOutcome]
    /\ registry = IntentRegistry
    /\ regcalls = [registered |-> <<>>, intent |-> None, out |-> NoOutcome]

\* retrieve() without the is_authorized() test
retrieve_begin_unchecked(c, sfp, fs, a) ==
    IF a.tag = "raised"
    THEN [done |-> TRUE, outcome |-> a, path |-> sfp, cache_reads |-> 0, hit |-> FALSE]
    ELSE LET tc == try_cache(sfp, c, fs)
         IN IF tc.responses # None
            THEN [done |-> TRUE, outcome |-> Returned(Val(tc.responses)),
                  path |-> tc.path, cache_reads |-> 1, hit |-> TRUE]
            ELSE [done |-> FALSE, outcome |-> NoOutcome,
                  path |-> tc.path, cache_reads |-> 1, hit |-> FALSE]

\* retrieve() up to the call of _call_api, a being what is_authorized()
\* answered: whether retrieve() is over, its outcome, the new
\* save_file_path, and what it did on the way
retrieve_begin(c, sfp, fs, a) ==
    IF a.tag = "raised"
    THEN [done |-> TRUE, outcome |-> a, path |-> sfp, cache_reads |-> 0, hit |-> FALSE]
    ELSE IF ~a.val
    THEN [done |-> TRUE, outcome |-> Raised(PyException("is no longer connected")),
          path |-> sfp, cache_reads |-> 0, hit |-> FALSE]
    ELSE LET tc == try_cache(sfp, c, fs)
         IN IF tc.responses # None
            THEN [done |-> TRUE, outcome |-> Returned(Val(tc.responses)),
                  path |-> tc.path, cache_reads |-> 1, hit |-> TRUE]
            ELSE [done |-> FALSE, outcome |-> NoOutcome,
                  path |-> tc.path, cache_reads |-> 1, hit |-> FALSE]

\* retrieve() ends with outcome ro and call_tool ends after it
Return(i, ro, lg, sfp) ==
    /\ pc' = [pc EXCEPT ![i] = "idle"]
    /\ ret' = [ret EXCEPT ![i] = ro]
    /\ log' = [log EXCEPT ![i] = lg]
    /\ result' = [result EXCEPT ![i] = ExceptClauses(cfg[i], TryBlock(cfg[i], sfp, ro))]

\* call_tool() up to the first page request: validation, then retrieve()'s
\* authorization check and try_cache
CallTool(i) ==
    /\ pc[i] = "idle"
    /\ calls[i] < MaxCalls
    /\ calls' = [calls EXCEPT ![i] = @ + 1]
    /\ responses' = [responses EXCEPT ![i] = <<>>]
    /\ UNCHANGED <<cfg, start_pos, files, upstream, written, tcr, dialogVars>>
    /\ LET c == cfg[i]
           v == Validate(c)
       IN IF v.tag = "raised"
          THEN /\ pc' = pc
               /\ ret' = [ret EXCEPT ![i] = NoOutcome]
               /\ log' = [log EXCEPT ![i] = FreshLog]
               /\ result' = [result EXCEPT ![i] = ExceptClauses(c, v)]
               /\ UNCHANGED save_file_path
          ELSE \E a \in AuthOutcomes :
               LET rb == retrieve_begin(c, save_file_path[i], files, a)
                   lg == [FreshLog EXCEPT !.validated = TRUE,
                             !.auth = IF a.tag = "raised" THEN "raised"
                                      ELSE IF a.val THEN "true" ELSE "false",
                             !.cache_reads = rb.cache_reads,
                             !.hit = rb.hit]
               IN /\ save_file_path' = [save_file_path EXCEPT ![i] = rb.path]
                  /\ IF rb.done
                     THEN Return(i, rb.outcome, lg, rb.path)
                     ELSE /\ pc' = [pc EXCEPT ![i] = "fetching"]
                          /\ log' = [log EXCEPT ![i] = lg]
                          /\ ret' = [ret EXCEPT ![i] = NoOutcome]
                          /\ result' = [result EXCEPT ![i] = NoOutcome]

\* One pass of _call_api's loop: _call_api_once, the append, the size test
CallApiOnce(i) ==
    /\ pc[i] = "fetching"
    /\ Len(responses[i]) < MaxFetches
    /\ UNCHANGED <<cfg, save_file_path, upstream, calls, written, tcr, dialogVars>>
    /\ LET c == cfg[i]
           params == get_params(c, start_pos[i])
       IN \E tok \in TokenOutcomes :
          LET lg == [log[i] EXCEPT !.token_asked = @ + 1]
              h == get_headers(tok)
              lgSent == [lg EXCEPT !.sent =
                            Append(@, [params |-> params, start_pos |-> start_pos[i],
                                       headers |-> h.val])]
          IN IF h.tag = "raised"
             THEN /\ Return(i, h, lg, save_file_path[i])
                  /\ files' = call_api_raised(save_file_path[i], c, files, responses[i])
                  /\ UNCHANGED <<start_pos, responses>>
             ELSE \/ \E e \in RequestFailures :
                        /\ Return(i, Raised(e), lgSent, save_file_path[i])
                        /\ files' = call_api_raised(save_file_path[i], c, files,
                                                    responses[i])
                        /\ UNCHANGED <<start_pos, responses>>
                  \/ \E page \in Serve(params, upstream) :
                        /\ UNCHANGED files
                        /\ responses' = [responses EXCEPT ![i] =
                                            Append(@, to_json(c, page)[1])]
                        /\ log' = [log EXCEPT ![i] = lgSent]
                        /\ UNCHANGED <<ret, result>>
                        /\ IF to_json(c, page)[2] < page_size
                           THEN /\ pc' = [pc EXCEPT ![i] = "caching"]
                                /\ UNCHANGED start_pos
                           ELSE /\ start_pos' = [start_pos EXCEPT ![i] = @ + page_size]
                                /\ UNCHANGED pc

\* _call_api has returned: cache(responses), retrieve() returns, call_tool
\* builds its result
Cache(i) ==
    /\ pc[i] = "caching"
    /\ UNCHANGED <<cfg, start_pos, upstream, responses, calls, written, tcr,
                   dialogVars>>
    /\ LET w == cache(save_file_path[i], cfg[i], files, responses[i])
       IN /\ save_file_path' = [save_file_path EXCEPT ![i] = w.path]
          /\ files' = w.files
          /\ Return(i, Returned(responses[i]),
                    [log[i] EXCEPT !.cache_writes = @ + 1], w.path)

\* The retriever object the single-threaded program calls
Callers == {1}

\* The program is single-threaded: a call_tool starts when none is running
Next ==
    \E i \in Callers :
        \/ (\A j \in Insts : pc[j] = "idle") /\ CallTool(i)
        \/ CallApiOnce(i)
        \/ Cache(i)

Spec == Init /\ [][Next]_vars

\* The thread that runs call_tool keeps running: a loop pass or the cache()
\* that can be taken is taken
SpecFair ==
    /\ Init
    /\ [][Next]_vars
    /\ \A i \in Callers : WF_vars(CallApiOnce(i)) /\ WF_vars(Cache(i))

-----------------------------------------------------------------------------
(* Two call_tool() running at once on two retrievers of the same request.  *)
(* cache() is followed statement by statement: the open, one write per     *)
(* response, the close. A line is taken to reach the file whole.           *)

\* cache(): the first statement and the open
CacheOpen(i) ==
    /\ pc[i] = "caching"
    /\ UNCHANGED <<cfg, start_pos, upstream, responses, calls, written, tcr,
                   dialogVars>>
    /\ LET w == cache_open(save_file_path[i], cfg[i], files)
       IN /\ save_file_path' = [save_file_path EXCEPT ![i] = w.path]
          /\ files' = w.files
          /\ IF Truthy(w.path)
             THEN /\ pc' = [pc EXCEPT ![i] = "writing"]
                  /\ UNCHANGED <<log, ret, result>>
             ELSE Return(i, Returned(responses[i]),
                         [log[i] EXCEPT !.cache_writes = @ + 1], w.path)

\* cache(): one pass of the loop over responses
CacheWrite(i) ==
    /\ pc[i] = "writing"
    /\ written[i] < Len(responses[i])
    /\ files' = cache_write(save_file_path[i], files, responses[i][written[i] + 1])
    /\ written' = [written EXCEPT ![i] = @ + 1]
    /\ UNCHANGED <<cfg, save_file_path, start_pos, upstream, pc, responses, log,
                   ret, result, calls, tcr, dialogVars>>

\* cache(): the loop is over, the file is closed, retrieve() returns and
\* call_tool builds its result
CacheClose(i) ==
    /\ pc[i] = "writing"
    /\ written[i] = Len(responses[i])
    /\ written' = [written EXCEPT ![i] = 0]
    /\ UNCHANGED <<cfg, save_file_path, start_pos, files, upstream, responses,
                   calls, tcr, dialogVars>>
    /\ Return(i, Returned(responses[i]),
              [log[i] EXCEPT !.cache_writes = @ + 1], save_file_path[i])

\* The request both retrievers are built for: a valid paginated query that
\* is persisted, no cache file yet
InitConcurrent ==
    /\ Init
    /\ cfg[1] \in {Config("QBUserDataRetriever", Some(Q_ORDERED), Some(250), "", s) :
                      s \in SavePaths \ {None}}
    /\ upstream \in {50, 250}
    /\ files = <<>>

NextConcurrent ==
    \E i \in Insts :
        \/ CallTool(i)
        \/ CallApiOnce(i)
        \/ CacheOpen(i)
        \/ CacheWrite(i)
        \/ CacheClose(i)

SpecConcurrent == InitConcurrent /\ [][NextConcurrent]_vars

-----------------------------------------------------------------------------
(* ToolCallResult.success and to_dict on their own *)

ToolNames == {"qb_http_retriever", "qb_user_data_retriever",
              "qb_data_size_retriever", "qb_data_schema_retriever"}

FileNames == {<<<<"qb_data_schema_retriever", "Bill">>, ".jsonl">>,
              <<"custom.jsonl">>}

\* data / sample arguments: None, the empty dict, two dicts
Payloads == {None, Some(<<>>), Some([a |-> 1]), Some([b |-> 2])}

InitTCR ==
    /\ Init
    /\ cfg[1] = Config("QBDataSchemaRetriever", None, None, "Bill", None)
    /\ upstream = 0

CallSuccess ==
    /\ \E tn \in ToolNames, fn \in FileNames, d \in Payloads, sm \in Payloads :
          tcr' = [args |-> [tool_name |-> tn, file_name |-> fn,
                            data |-> d, sample |-> sm],
                  out |-> success(tn, fn, d, sm),
                  dict |-> NoOutcome]
    /\ UNCHANGED <<retrieverVars, dialogVars>>

\* to_dict() on the result the last success call returned
ToDict ==
    /\ tcr.out.tag = "returned"
    /\ tcr' = [tcr EXCEPT !.dict = to_dict(tcr.out.val)]
    /\ UNCHANGED <<retrieverVars, dialogVars>>

NextTCR == CallSuccess \/ ToDict

SpecTCR == InitTCR /\ [][NextTCR]_vars

-----------------------------------------------------------------------------
(* STMemory on its own *)

\* add_message calls on the memory
MaxMessages == 3

Roles == {"user", "bot", "system"}

Contents == {"hello", "thanks"}

\* message.slots: empty, one slot with either of two values, two slots
SlotDicts ==
    {EmptyDict, [location |-> "paris"], [location |-> "rome"],
     [location |-> "rome", hotel_name |-> "Hilton"]}

Messages ==
    {TMessage(r, c, sl) : r \in Roles, c \in Contents, sl \in SlotDicts}

InitMemory == InitTCR

AddMessage ==
    /\ Len(memory.conversation_history) < MaxMessages
    /\ \E message \in Messages :
          /\ memory' = add_message(memory, message)
          /\ added' = Append(added, message)
    /\ before' = None
    /\ UNCHANGED <<retrieverVars, tcr, parserVars, serverVars>>

BeforeLastUserTurn ==
    /\ before' = Some(conversation_history_before_last_user_turn(memory))
    /\ UNCHANGED <<retrieverVars, tcr, memory, added, parserVars, serverVars>>

NextMemory == AddMessage \/ BeforeLastUserTurn

SpecMemory == InitMemory /\ [][NextMemory]_vars

-----------------------------------------------------------------------------
(* IntentClassifierOutputParser on its own *)

\* set_success calls on the parser
MaxSetSuccess == 2

\* Lines of a response of several lines
MaxLines == 2

\* A line of the prompt's format with a known intent, a known dialog act
\* and a known slot
KnownLine ==
    JsonLine(JObj(<< <<(<<"intent", "1">>), JStr("search_hotels")>>,
                     <<(<<"dialog_act", "1">>), JStr("INFORM_INTENT")>>,
                     <<(<<"entities", "1">>),
                       JObj(<< <<"location", JStr("Paris")>> >>)>> >>))

BasicLines == {KnownLine, TextLine("not json"), BlankLine}

\* The sequences of at most n lines out of a set
RECURSIVE SeqsUpTo(_, _)
SeqsUpTo(S, n) ==
    IF n = 0 THEN {<<>>}
    ELSE SeqsUpTo(S, n - 1) \cup
         {Append(q, x) : q \in {r \in SeqsUpTo(S, n - 1) : Len(r) = n - 1}, x \in S}

IntentValues == {"search_hotels", "SEARCH_HOTELS", "Book_Listing", "unknown_intent"}

\* The dialog_act and entities items of a line: absent, or present and
\* partly unknown to the catalogs
DialogActItems ==
    {<<>>, << <<(<<"dialog_act", "1">>), JStr("Affirm")>> >>,
     << <<(<<"dialog_act", "1">>), JStr("unknown_act")>> >>}

EntitiesItems ==
    {<<>>,
     << <<(<<"entities", "1">>),
          JObj(<< <<"Location", JStr("Rome")>>, <<"unknown_slot", JStr("x")>> >>)>> >>}

\* One JSON object with one intent key, per line of the prompt's format
IntentLines ==
    {JsonLine(JObj(<< <<(<<"intent", "1">>), JStr(v)>> >> \o d \o e)) :
        v \in IntentValues, d \in DialogActItems, e \in EntitiesItems}

\* One JSON object whose intent or dialog act is null
NullLines ==
    {JsonLine(JObj(<< <<(<<"intent", "1">>), JNull>> >>)),
     JsonLine(JObj(<< <<(<<"intent", "1">>), JStr("search_hotels")>>,
                      <<(<<"dialog_act", "1">>), JNull>> >>)),
     JsonLine(JObj(<< <<(<<"dialog_act", "1">>), JNull>>,
                      <<(<<"intent", "1">>), JStr("search_hotels")>> >>))}

\* The responses of the language model: up to MaxLines basic lines, one
\* line with one intent, one line with a null, one basic line inside a
\* code block
Responses ==
    SeqsUpTo(BasicLines, MaxLines)
    \cup {<<l>> : l \in IntentLines \cup NullLines}
    \cup {<<FenceLine("json"), l, FenceLine("")>> : l \in BasicLines}

InitParser == InitTCR

SetSuccess ==
    /\ parse.n < MaxSetSuccess
    /\ \E response_content \in Responses :
          LET r == set_success(parser, response_content)
          IN /\ parser' = r.parser
             /\ parse' = [n |-> parse.n + 1, response |-> response_content,
                          was |-> parser, out |-> r.out, done |-> r.done]
    /\ output' = None
    /\ UNCHANGED <<retrieverVars, tcr, memoryVars, serverVars>>

SetError ==
    /\ \E error_reason \in {"Test error"} :
          parser' = set_error(parser, error_reason)
    /\ output' = None
    /\ UNCHANGED <<retrieverVars, tcr, memoryVars, serverVars, parse>>

GetOutput ==
    /\ output' = Some(get_output(parser))
    /\ UNCHANGED <<retrieverVars, tcr, memoryVars, serverVars, parser, parse>>

NextParser == SetSuccess \/ SetError \/ GetOutput

SpecParser == InitParser /\ [][NextParser]_vars

-----------------------------------------------------------------------------
(* IIntentServer on its own *)

\* serve() calls on the server
MaxServes == 2

\* Slots a user turn carries
MaxTurnSlots == 2

\* The intents servers are constructed for
ServerIntents == {"get_listing_details", "book_listing", "other"}

TurnSlotNames ==
    {"hotel_name", "check_in", "check_out", "guests", "parking", "location"}

SlotValues(slot) ==
    IF slot = "hotel_name" THEN {"Hilton", "Ritz"} ELSE {"given"}

\* user_turn.slots: at most MaxTurnSlots slots with their values
TurnSlots ==
    UNION {{f \in [K -> {"Hilton", "Ritz", "given"}] :
               \A slot \in K : f[slot] \in SlotValues(slot)} :
           K \in {J \in SUBSET TurnSlotNames : Cardinality(J) <= MaxTurnSlots}}

\* What a subclass's run_tools returns
ToolsOutputs == {[rooms |-> 0], [rooms |-> 2]}

IntentServerInput(slots) ==
    [user_id |-> "user1", user_turn |-> TMessage("user", "hello", slots)]

InitServer == InitTCR

Construct ==
    /\ server = None
    /\ \E my_intent \in ServerIntents : server' = Some(IIntentServer(my_intent))
    /\ UNCHANGED <<retrieverVars, tcr, memoryVars, parserVars, served,
                    registryVars>>

ServeTurn ==
    /\ server # None
    /\ served.n < MaxServes
    /\ \E slots \in TurnSlots, tools_output \in ToolsOutputs :
          LET input == IntentServerInput(slots)
              r == serve(Val(server), input, tools_output)
          IN /\ server' = Some(r.server)
             /\ served' = [n |-> served.n + 1, input |-> Some(input),
                           was |-> Val(server).gathered_slots,
                           hooks |-> r.hooks, out |-> r.out]
    /\ UNCHANGED <<retrieverVars, tcr, memoryVars, parserVars, registryVars>>

NextServer == Construct \/ ServeTurn

SpecServer == InitServer /\ [][NextServer]_vars

-----------------------------------------------------------------------------
(* IntentRegistry on its own *)

\* register calls on the registry
MaxRegisters == 3

RegistryIntents == {"qb", "other", "search_hotels"}

\* The server objects handed to register
Handlers == {"server_a", "server_b"}

InitRegistry == InitTCR

Register ==
    /\ Len(regcalls.registered) < MaxRegisters
    /\ \E intent \in RegistryIntents, handler \in Handlers :
          /\ registry' = register(registry, intent, handler)
          /\ regcalls' = [registered |-> Append(regcalls.registered,
                                                <<intent, handler>>),
                          intent |-> None, out |-> NoOutcome]
    /\ UNCHANGED <<retrieverVars, tcr, memoryVars, parserVars, server, served>>

Lookup ==
    /\ \E intent \in RegistryIntents :
          regcalls' = [regcalls EXCEPT !.intent = Some(intent),
                                       !.out = registry_server(registry, intent)]
    /\ UNCHANGED <<retrieverVars, tcr, memoryVars, parserVars, server, served,
                    registry>>

NextRegistry == Register \/ Lookup

SpecRegistry == InitRegistry /\ [][NextRegistry]_vars

-----------------------------------------------------------------------------
(* Properties of retrieve() *)

\* The cache file of instance i, computed from its current save_file_path
CachePath(i) == ResolveDefault(save_file_path[i], cfg[i])

CacheFileExists(i) == Truthy(CachePath(i)) /\ Val(CachePath(i)) \in DOMAIN files

\* The pages a file holds, line by line
PagesOf(lines) == [k \in 1..Len(lines) |-> json_loads(lines[k])]

\* Instance i starts a call_tool in this step
Starts(i) == calls'[i] = calls[i] + 1

\* C1: retrieve() on a connection whose is_authorized() is false raises at
\* once: no cache read, no token request, no HTTP request, no cache write,
\* no retry, the file system untouched, also when the cache file exists.
C1_UnauthorizedRaisesAtOnce ==
    [][\A i \in Insts :
        (Starts(i) /\ log'[i].auth = "false") =>
            /\ pc'[i] = "idle"
            /\ ret'[i] = Raised(PyException("is no longer connected"))
            /\ log'[i].cache_reads = 0
            /\ log'[i].token_asked = 0
            /\ log'[i].sent = <<>>
            /\ log'[i].cache_writes = 0
            /\ files' = files
            /\ save_file_path' = save_file_path]_vars

\* An unauthorized retrieve() has raised while the cache file exists
C1_Witness ==
    /\ log[1].auth = "false"
    /\ CacheFileExists(1)
    /\ Len(files[Val(CachePath(1))]) > 0
    /\ ret[1].tag = "raised"

\* C2: with a save path configured and the cache file present, a retrieve()
\* on an authorized connection ends without an HTTP request, returns the
\* pages of the file in file order and leaves the file as it was; a hit
\* that follows a hit returns the same pages.
C2_CacheHitIdempotent ==
    [][\A i \in Insts :
        (Starts(i) /\ log'[i].auth = "true" /\ CacheFileExists(i)) =>
            /\ pc'[i] = "idle"
            /\ log'[i].sent = <<>>
            /\ log'[i].token_asked = 0
            /\ ret'[i] = Returned(PagesOf(files[Val(CachePath(i))]))
            /\ files' = files
            /\ (log[i].hit => ret'[i] = ret[i])]_vars

\* A second call has been answered from the file the first call wrote
C2_Witness ==
    /\ calls[1] = 2
    /\ log[1].hit
    /\ log[1].sent = <<>>
    /\ ret[1].tag = "returned"
    /\ Len(ret[1].val) = 3
    /\ files[Val(CachePath(1))] = [k \in 1..3 |-> json_dumps(ret[1].val[k])]

\* C3: a cache-miss retrieve() against an upstream that serves the table's
\* records in pages of page_size ends after (records \div page_size) + 1
\* page requests and returns one page per request, in request order.
C3_PageFetchCount ==
    \A i \in Insts :
        (/\ cfg[i].kind = "QBUserDataRetriever"
         /\ pc[i] = "idle"
         /\ ret[i].tag = "returned"
         /\ ~log[i].hit) =>
            /\ Len(log[i].sent) = (upstream \div page_size) + 1
            /\ Len(ret[i].val) = Len(log[i].sent)

\* C4: the k-th page request of every cache-miss retrieve() is sent at
\* start position 1 + (k - 1) * page_size.
C4_StartsAtOne ==
    \A i \in Insts :
        \A k \in 1..Len(log[i].sent) :
            log[i].sent[k].params.startposition # None =>
                Val(log[i].sent[k].params.startposition)
                    = initial_start_pos + (k - 1) * page_size

\* C5: once a cache-miss retrieve() with a save path has returned, the
\* cache file holds one line per fetched page, in fetch order, each the
\* encoding of the returned page; while pages are being fetched the file
\* is not there yet.
C5_CacheFileIsThePages ==
    \A i \in Insts :
        /\ (/\ pc[i] = "idle"
            /\ log[i].cache_writes = 1
            /\ Truthy(save_file_path[i])) =>
                /\ ret[i].tag = "returned"
                /\ Len(ret[i].val) = Len(log[i].sent)
                /\ files[Val(save_file_path[i])]
                      = [k \in 1..Len(ret[i].val) |-> json_dumps(ret[i].val[k])]
                /\ \A k \in 1..Len(ret[i].val) :
                      json_loads(files[Val(save_file_path[i])][k]) = ret[i].val[k]
        /\ (pc[i] = "fetching" /\ Truthy(save_file_path[i])) =>
                Val(save_file_path[i]) \notin DOMAIN files

\* Three pages have been fetched and written
C5_Witness ==
    /\ pc[1] = "idle"
    /\ log[1].cache_writes = 1
    /\ Truthy(save_file_path[1])
    /\ Len(log[1].sent) = 3
    /\ Len(files[Val(save_file_path[1])]) = 3

-----------------------------------------------------------------------------
(* Properties of ToolCallResult.success *)

\* C6: ToolCallResult.success returns a result exactly when one of data and
\* sample is given; the result has status "success" and exactly one of
\* data and sample set, the one that was given; with both or with neither
\* it raises ValueError and returns nothing.
C6_SuccessExactlyOne ==
    tcr.out.tag # "none" =>
        LET given == {f \in {"data", "sample"} : tcr.args[f] # None}
        IN IF Cardinality(given) = 1
           THEN /\ tcr.out.tag = "returned"
                /\ tcr.out.val.status = Some("success")
                /\ tcr.out.val.tool_name = Some(tcr.args.tool_name)
                /\ tcr.out.val.file_name = Some(tcr.args.file_name)
                /\ \A f \in {"data", "sample"} : tcr.out.val[f] = tcr.args[f]
                /\ Cardinality({f \in {"data", "sample"} : tcr.out.val[f] # None}) = 1
           ELSE /\ tcr.out.tag = "raised"
                /\ tcr.out.exc.name = "ValueError"

\* success was called with both data and sample and has raised
C6_Witness ==
    /\ tcr.out.tag = "raised"
    /\ tcr.args.data # None
    /\ tcr.args.sample # None

-----------------------------------------------------------------------------
(* Properties of call_tool *)

\* call_tool of instance i is over
Over(i) == calls[i] > 0 /\ pc[i] = "idle"

\* C7: when retrieve() raises the HTTP client's HTTPError for a response
\* with status s, call_tool returns an error result with error_type
\* "HTTPError" and status_code s, for each of the four retriever tools.
C7_HTTPErrorStatusCode ==
    \A i \in Insts :
        (/\ Over(i)
         /\ ret[i].tag = "raised"
         /\ ret[i].exc.module = "requests.exceptions"
         /\ ret[i].exc.name = "HTTPError"
         /\ ret[i].exc.response # None) =>
            /\ result[i].tag = "returned"
            /\ result[i].val.status = Some("error")
            /\ result[i].val.error_type = Some("HTTPError")
            /\ result[i].val.status_code = ret[i].exc.response

\* C8: call_tool returns the NoData error whenever retrieve() returns no
\* page or a first page whose QueryResponse is empty or absent, and a first
\* page with an empty QueryResponse is the only page requested.
C8_NoData ==
    \A i \in Insts :
        /\ (/\ Over(i)
            /\ ret[i].tag = "returned"
            /\ \/ Len(ret[i].val) = 0
               \/ ret[i].val[1].QueryResponse \in {"empty", "absent"}) =>
                result[i] = Returned(error(tool_name(cfg[i]), "NoData",
                                           "No data found", None))
        /\ (/\ Len(responses[i]) > 0
            /\ responses[i][1].QueryResponse = "empty") =>
                /\ pc[i] # "fetching"
                /\ Len(log[i].sent) = 1
                /\ Len(responses[i]) = 1

\* A fetched first page with an empty QueryResponse has given NoData
C8_Witness ==
    /\ Over(1)
    /\ ~log[1].hit
    /\ ret[1].tag = "returned"
    /\ ret[1].val[1].QueryResponse = "empty"
    /\ Len(log[1].sent) = 1
    /\ result[1].val.error_type = Some("NoData")

\* C9: call_tool never raises: whatever is raised inside it comes back as
\* an error result whose error_type is the exception's class name.
C9_NeverRaises ==
    \A i \in Insts :
        Over(i) =>
            /\ result[i].tag = "returned"
            /\ ret[i].tag = "raised" =>
                  /\ result[i].val.status = Some("error")
                  /\ result[i].val.error_type = Some(ret[i].exc.name)

\* The query of instance i is one its is_query_valid rejects
Rejected(c) ==
    /\ c.kind \in {"QBUserDataRetriever", "QBDataSizeRetriever"}
    /\ is_query_valid(c) # Returned(TRUE)

\* C10: QBUserDataRetriever.call_tool and QBDataSizeRetriever.call_tool
\* validate before retrieve(): with a rejected query the call ends in an
\* error result, and no authorization check, cache read, token request,
\* HTTP request or cache write takes place.
C10_ValidationFirst ==
    [][\A i \in Insts :
        (Starts(i) /\ Rejected(cfg[i])) =>
            /\ pc'[i] = "idle"
            /\ ret'[i] = NoOutcome
            /\ log'[i] = FreshLog
            /\ files' = files
            /\ save_file_path' = save_file_path
            /\ result'[i].tag = "returned"
            /\ result'[i].val.status = Some("error")
            /\ result'[i].val.error_type
                  = Some(IF cfg[i].kind = "QBUserDataRetriever"
                         THEN "ValueError" ELSE "AssertionError")]_vars

\* A QBDataSizeRetriever query without COUNT(*) has been turned down
C10_Witness ==
    /\ Over(1)
    /\ cfg[1].kind = "QBDataSizeRetriever"
    /\ Rejected(cfg[1])
    /\ log[1] = FreshLog
    /\ result[1].val.error_type = Some("AssertionError")

-----------------------------------------------------------------------------
(* C11: a retrieve() that fails for lack of an access token *)

\* The last retrieve() of instance i failed in get_headers
TokenMissing(i) ==
    Over(i) /\ ret[i] = Raised(PyException("No valid access token"))

\* C11 (as stated): whenever a retrieve() fails because no valid access
\* token is available, that retrieve() has issued no HTTP request at all, on
\* whichever page the token is found missing, and it is not retried
C11_NoRequestAtAll ==
    \A i \in Insts :
        TokenMissing(i) => log[i].sent = <<>> /\ log[i].token_asked = 1

\* C11 (amended): every HTTP request of a retrieve() carries a valid access
\* token, and a retrieve() that fails for lack of one has not requested the
\* page on which the token was missing: it has requested only the pages
\* before it, it asked for a token once per page and never again after the
\* failure, and it has written nothing to the cache
C11_NoRequestWithoutToken ==
    \A i \in Insts :
        /\ \A k \in 1..Len(log[i].sent) :
              log[i].sent[k].headers.Authorization = <<"Bearer", Some("token")>>
        /\ TokenMissing(i) =>
              /\ Len(log[i].sent) = Len(responses[i])
              /\ log[i].token_asked = Len(log[i].sent) + 1
              /\ log[i].cache_writes = 0
              /\ result[i].tag = "returned"
              /\ result[i].val.status = Some("error")

\* A retrieve() whose token went missing after its first page was requested
C11_Witness ==
    TokenMissing(1) /\ Len(log[1].sent) >= 1

-----------------------------------------------------------------------------
(* C12 - C14: STMemory *)

\* The largest element of a non-empty set of integers
Last(S) == CHOOSE x \in S : \A y \in S : y <= x

\* C12: after any sequence of add_message calls, get_conversation_history
\* returns exactly the added messages in call order; no message is removed,
\* reordered or replaced
C12_HistoryIsTheAddedMessages ==
    get_conversation_history(memory) = added

\* Three messages were added, the first and the last of them different
C12_Witness ==
    /\ Len(added) = 3
    /\ added[1] # added[3]
    /\ get_conversation_history(memory) = added

\* The add_message calls whose message carried slot s
Carriers(s) == {k \in 1..Len(added) : s \in DOMAIN added[k].slots}

\* C13: after any sequence of add_message calls the slot map holds, for every
\* slot carried by at least one message, the value of the most recent message
\* that carried it; a message that does not carry the slot leaves its value
\* unchanged and no slot is ever removed
C13_LastWriteWins ==
    \A s \in SlotNames :
        Carriers(s) # {} =>
            /\ s \in DOMAIN memory.slots
            /\ memory.slots[s] = added[Last(Carriers(s))].slots[s]

\* location was set to paris, then to rome, then came a message without it
C13_Witness ==
    /\ Len(added) = 3
    /\ added[1].slots = [location |-> "paris"]
    /\ added[2].slots = [location |-> "rome"]
    /\ added[3].slots = EmptyDict
    /\ memory.slots = [location |-> "rome"]

\* C14: conversation_history_before_last_user_turn() returns the summary of
\* all messages up to and including the most recent bot message that precedes
\* the last user turn; if no bot message precedes it, the summary of all
\* messages strictly before the last user turn; if there is no user turn, the
\* empty string. The last user turn is never part of the result
C14_BeforeLastUserTurn ==
    before # None =>
        LET h == memory.conversation_history
            U == {k \in 1..Len(h) : h[k].role = "user"}
        IN IF U = {} THEN Val(before) = <<>>
           ELSE LET u == Last(U)
                    B == {k \in 1..(u - 1) : h[k].role = "bot"}
                    n == IF B # {} THEN Last(B) ELSE u - 1
                IN /\ n < u
                   /\ Val(before) = join_lines(SubSeq(h, 1, n))

\* Asked after a bot message, a third party's message and a user turn: the
\* result is the bot message alone
C14_Witness ==
    /\ before # None
    /\ Len(memory.conversation_history) = 3
    /\ memory.conversation_history[1].role = "bot"
    /\ memory.conversation_history[2].role = "system"
    /\ memory.conversation_history[3].role = "user"
    /\ Val(before) = <<"bot", ": ", memory.conversation_history[1].content>>

-----------------------------------------------------------------------------
(* C15: to_dict of a success result *)

\* C15: a ToolCallResult built by success with data d serializes with to_dict
\* to an envelope whose content.data equals d and whose content has no sample
\* key; built with sample s, content.sample equals s and content has no data
\* key
C15_ToDictDataOrSample ==
    tcr.dict.tag # "none" =>
        /\ tcr.dict.tag = "returned"
        /\ LET content == tcr.dict.val.content
           IN /\ tcr.args.data # None =>
                    /\ "data" \in DOMAIN content
                    /\ content.data = tcr.args.data
                    /\ "sample" \notin DOMAIN content
              /\ tcr.args.sample # None =>
                    /\ "sample" \in DOMAIN content
                    /\ content.sample = tcr.args.sample
                    /\ "data" \notin DOMAIN content

\* to_dict() was called on a result built with a sample, the empty dict
C15_Witness ==
    /\ tcr.dict.tag = "returned"
    /\ tcr.args.sample = Some(<<>>)
    /\ DOMAIN tcr.dict.val.content = {"file_name", "sample"}

-----------------------------------------------------------------------------
(* C16 - C18: IntentClassifierOutputParser *)

\* The items of the one JSON object of a single-line response whose key
\* contains "intent"
IntentItems(response) ==
    IF Len(response) = 1 /\ response[1].kind = "json" /\ response[1].value.t = "obj"
    THEN SelectSeq(response[1].value.items, LAMBDA it : InKey("intent", it[1]))
    ELSE <<>>

\* The number of times x is in the sequence q
Count(q, x) == Cardinality({k \in 1..Len(q) : q[k] = x})

\* C16: for every single-line classifier response that is valid JSON and
\* names a known intent, in any letter case, under one intent key, the
\* parsed output contains that intent exactly once; an intent name not in
\* the catalog is excluded from the output without raising
C16_KnownIntentExactlyOnce ==
    LET its == IntentItems(parse.response)
    IN (parse.n > 0 /\ parse.was.intents = Some(<<>>) /\ Len(its) = 1
          /\ its[1][2].t = "str") =>
          LET named == {e \in IntentNames : Lower(e) = Lower(its[1][2].v)}
              intents == Val(get_output(parser).intents)
          IN /\ parse.out.tag = "returned"
             /\ \A e \in named : Count(intents, e) = 1
             /\ named = {} => intents = <<>>

\* The response named SEARCH_HOTELS in upper case, with an unknown dialog act
C16_Witness ==
    /\ parse.n = 1
    /\ Len(IntentItems(parse.response)) = 1
    /\ IntentItems(parse.response)[1][2] = JStr("SEARCH_HOTELS")
    /\ parser.intents = Some(<<"search_hotels">>)
    /\ parser.dialog_acts = Some(<<>>)

\* C17: get_output reports is_successful true after any sequence of
\* set_success and set_error calls: the flag depends only on the intents
\* list being present and stays true when an error_reason was set and no
\* intent was parsed
C17_AlwaysSuccessful ==
    output # None =>
        /\ Val(output).is_successful
        /\ Val(output).intents = parser.intents
        /\ Val(output).error_reason = parser.error_reason

\* get_output after a set_success that raised and a set_error, no intent
\* parsed
C17_Witness ==
    /\ output # None
    /\ parse.out.tag = "raised"
    /\ Val(output).error_reason = Some("Test error")
    /\ Val(output).intents = Some(<<>>)
    /\ Val(output).is_successful

\* The numbers of the non-blank lines of the last response that are no JSON
FailingLines ==
    LET lines == non_blank_lines(strip_code_block(parse.response))
    IN {k \in 1..Len(lines) : lines[k].kind # "json"}

\* C18: if any non-blank line of a classifier response fails to parse as
\* JSON, set_success fails for the whole response: it raises at that line,
\* processes no later line, and nothing parsed from the response is salvaged
\* as a partial result
C18_NoPartialResult ==
    (parse.n > 0 /\ FailingLines # {}) =>
        /\ parse.out = Raised(JSONDecodeError)
        /\ \A k \in FailingLines : parse.done < k
        /\ parser.intents = parse.was.intents
        /\ parser.dialog_acts = parse.was.dialog_acts
        /\ parser.slots = parse.was.slots

-----------------------------------------------------------------------------
(* C19 - C20: IIntentServer.serve *)

\* The declared required and optional input slots of the server's intent
Declared ==
    LET intent == HOTEL_BOOKING_INTENTS[Val(server).my_intent]
    IN {intent.required_slots[k] : k \in 1..Len(intent.required_slots)}
       \cup {intent.optional_slots[k] : k \in 1..Len(intent.optional_slots)}

\* The slots of the last serve() call's user turn
TurnSlotsServed == Val(served.input).user_turn.slots

\* C19: after any sequence of serve() calls the keys of the server's
\* gathered slots are a subset of its intent's declared required and optional
\* input slots; a slot outside those sets is ignored, is not merged, and
\* does not change any gathered value
C19_OnlyDeclaredSlotsGathered ==
    server # None =>
        LET gathered == Val(server).gathered_slots
        IN /\ DOMAIN gathered \subseteq Declared
           /\ served.n > 0 =>
                 /\ DOMAIN gathered =
                       DOMAIN served.was \cup (DOMAIN TurnSlotsServed \cap Declared)
                 /\ \A k \in DOMAIN gathered :
                       gathered[k] = IF k \in DOMAIN TurnSlotsServed
                                     THEN TurnSlotsServed[k] ELSE served.was[k]

\* A turn brought a slot outside the declared ones to a server that had
\* gathered hotel_name; the gathered slots are as before
C19_Witness ==
    /\ server # None
    /\ served.n = 2
    /\ DOMAIN TurnSlotsServed = {"location"}
    /\ "hotel_name" \in DOMAIN served.was
    /\ Val(server).gathered_slots = served.was

\* The declared required slots that are not gathered
Missing ==
    LET required == HOTEL_BOOKING_INTENTS[Val(server).my_intent].required_slots
    IN {required[k] : k \in 1..Len(required)} \ DOMAIN Val(server).gathered_slots

\* C20: serve() invokes run_tools and then use_tool_output, passing
\* run_tools' result, exactly when after merging the turn's slots no declared
\* required slot is missing from the gathered slots; otherwise it invokes
\* only _handle_missing_slots, with exactly the missing required slots, and
\* does not invoke run_tools
C20_ToolsRunIffNothingMissing ==
    served.n > 0 =>
        IF Missing = {}
        THEN /\ Len(served.hooks) = 2
             /\ served.hooks[1].hook = "run_tools"
             /\ served.hooks[1].input = Val(served.input)
             /\ served.hooks[2].hook = "use_tool_output"
             /\ served.hooks[2].tools_output = served.hooks[1].returned
             /\ served.hooks[2].input = Val(served.input)
        ELSE /\ Len(served.hooks) = 1
             /\ served.hooks[1].hook = "_handle_missing_slots"
             /\ LET given == served.hooks[1].missing_slots
                IN /\ {given[k] : k \in 1..Len(given)} = Missing
                   /\ Len(given) = Cardinality(Missing)

\* The second turn brought the last two required slots of book_listing:
\* the first serve() asked for slots, this one ran the tools
C20_Witness ==
    /\ server # None
    /\ Val(server).my_intent = "book_listing"
    /\ served.n = 2
    /\ DOMAIN served.was = {"hotel_name", "check_in"}
    /\ DOMAIN TurnSlotsServed = {"check_out", "guests"}
    /\ Len(served.hooks) = 2
    /\ served.hooks[1].hook = "run_tools"

-----------------------------------------------------------------------------
(* C21: gathered slots across serve() calls *)

\* This step is a serve() call on the server
ServeStep == server # None /\ served'.n = served.n + 1

\* C21: gathered slots accumulate across serve() calls on the same server
\* instance and are never reset: a slot merged in an earlier call stays
\* gathered in every later call, also after tools have run, so once one
\* serve() has run the tools every later serve() on that instance runs them
\* again without asking for slots
C21_SlotsAccumulate ==
    [][ServeStep =>
          LET g == Val(server).gathered_slots
              h == Val(server').gathered_slots
              turn == Val(served'.input).user_turn.slots
          IN /\ Val(server').my_intent = Val(server).my_intent
             /\ DOMAIN g \subseteq DOMAIN h
             /\ \A k \in DOMAIN g : k \notin DOMAIN turn => h[k] = g[k]
             /\ (served.n > 0 /\ served.hooks[1].hook = "run_tools") =>
                   /\ Len(served'.hooks) = 2
                   /\ served'.hooks[1].hook = "run_tools"
                   /\ served'.hooks[2].hook = "use_tool_output"]_vars

\* The first turn gave hotel_name and the tools ran; the second turn gave
\* no slot and the tools ran again on the slot kept from the first
C21_Witness ==
    /\ server # None
    /\ Val(server).my_intent = "get_listing_details"
    /\ served.n = 2
    /\ Val(served.input).user_turn.slots = EmptyDict
    /\ served.was = [hotel_name |-> "Ritz"]
    /\ Val(server).gathered_slots = served.was
    /\ served.hooks[1].hook = "run_tools"

-----------------------------------------------------------------------------
(* C22: IntentRegistry.server *)

\* The register calls made for the intent last looked up
RegisteredFor ==
    {k \in 1..Len(regcalls.registered) :
        regcalls.registered[k][1] = Val(regcalls.intent)}

\* C22: server(intent) returns the server instance most recently registered
\* for that intent, and for an intent that was never registered it fails
\* with a missing-key error instead of returning a default
C22_LatestRegisteredOrKeyError ==
    regcalls.out.tag # "none" =>
        IF RegisteredFor = {}
        THEN regcalls.out = Raised(KeyError(Val(regcalls.intent)))
        ELSE regcalls.out =
                Returned(Some(regcalls.registered[Last(RegisteredFor)][2]))

\* qb was registered twice, with different servers, and looked up; another
\* intent was registered too
C22_Witness ==
    /\ Len(regcalls.registered) = 3
    /\ regcalls.registered[1] = <<"qb", "server_a">>
    /\ regcalls.registered[2] = <<"qb", "server_b">>
    /\ regcalls.registered[3][1] = "other"
    /\ regcalls.intent = Some("qb")
    /\ regcalls.out = Returned(Some("server_b"))

-----------------------------------------------------------------------------
(* C23: two retrieve() calls that both miss the cache *)

\* The cache file of the request
ConcurrentPath == Val(ResolveDefault(cfg[1].save, cfg[1]))

\* The last call_tool of retriever i found no cache file, fetched, and
\* has appended its pages
MissedAndCached(i) ==
    /\ pc[i] = "idle"
    /\ ~log[i].hit
    /\ log[i].cache_writes = 1
    /\ ret[i].tag = "returned"

\* The lines one retrieval produced
FetchedLines(i) == [k \in 1..Len(ret[i].val) |-> json_dumps(ret[i].val[k])]

\* f holds the lines of a and the lines of b, each in its order
RECURSIVE IsMerge(_, _, _)
IsMerge(f, a, b) ==
    IF f = <<>> THEN a = <<>> /\ b = <<>>
    ELSE \/ a # <<>> /\ Head(f) = Head(a) /\ IsMerge(Tail(f), Tail(a), b)
         \/ b # <<>> /\ Head(f) = Head(b) /\ IsMerge(Tail(f), a, Tail(b))

\* C23: when two concurrent retrieve() calls for the same cache key both
\* found no cache file, both fetched and both appended, the cache file holds
\* the lines of both (more lines than one fetch produced), and a cache hit
\* that follows returns all of them
C23_BothAppend ==
    /\ [](  (\A i \in Insts : MissedAndCached(i)) =>
              /\ IsMerge(files[ConcurrentPath], FetchedLines(1), FetchedLines(2))
              /\ \A i \in Insts : Len(files[ConcurrentPath]) > Len(FetchedLines(i)))
    /\ [][ \A i \in Insts :
              (\A j \in Insts : MissedAndCached(j)) /\ log'[i].hit =>
                 /\ ret'[i].tag = "returned"
                 /\ Len(ret'[i].val) = Len(ret[1].val) + Len(ret[2].val)
                 /\ IsMerge([k \in 1..Len(ret'[i].val) |-> json_dumps(ret'[i].val[k])],
                            FetchedLines(1), FetchedLines(2)) ]_vars

\* Both retrievers fetched the three pages of 250 records and wrote them
\* in turns; the next call of one of them hit the cache and got six pages,
\* the first page twice in a row
C23_Witness ==
    \E i, j \in Insts :
        /\ i # j
        /\ MissedAndCached(j)
        /\ Len(ret[j].val) = 3
        /\ pc[i] = "idle"
        /\ log[i].hit
        /\ ret[i].tag = "returned"
        /\ Len(ret[i].val) = 6
        /\ ret[i].val[1] = ret[i].val[2]
        /\ result[i].tag = "returned"

-----------------------------------------------------------------------------
(* C24: the file name a successful call_tool reports *)

\* The last call_tool of retriever i wrote its pages to a file and
\* returned a success result
PersistedWithSuccess(i) ==
    /\ pc[i] = "idle"
    /\ log[i].cache_writes = 1
    /\ Truthy(save_file_path[i])
    /\ result[i].tag = "returned"
    /\ result[i].val.status = Some("success")

\* C24: when a retriever with a save path has persisted its pages and its
\* call_tool returns success, the file_name of the result is the name of the
\* file the pages were written to, <cache_key>.jsonl, the cache key being
\* the one the retriever had before pagination
C24_FileNameIsWrittenFile ==
    \A i \in Insts :
        PersistedWithSuccess(i) =>
            /\ Val(save_file_path[i]) \in DOMAIN files
            /\ result[i].val.file_name = Some(Val(save_file_path[i]))
            /\ result[i].val.file_name = Some(<<cache_key(cfg[i]), ".jsonl">>)

-----------------------------------------------------------------------------
(* C25: a successful QBDataSizeRetriever.call_tool *)

\* retrieve() of retriever i returned a first page whose QueryResponse is
\* not empty
FirstPageHasQueryResponse(i) ==
    /\ Over(i)
    /\ ret[i].tag = "returned"
    /\ Len(ret[i].val) > 0
    /\ query_response_len(ret[i].val[1]) > 0

\* `name in file_name` for the file name <cache_key>.jsonl
InFileName(name, file_name) ==
    \E k \in 1..Len(file_name[1]) : file_name[1][k] = name

\* C25: when retrieve() returns a first page with a non-empty QueryResponse,
\* QBDataSizeRetriever.call_tool returns a success result whose file_name
\* contains the queried table name and whose sample is populated
C25_SizeSuccessHasSample ==
    \A i \in Insts :
        (cfg[i].kind = "QBDataSizeRetriever" /\ FirstPageHasQueryResponse(i)) =>
            /\ result[i].tag = "returned"
            /\ result[i].val.status = Some("success")
            /\ InFileName(extract_query_response_key(cfg[i]), Val(result[i].val.file_name))
            /\ result[i].val.sample # None

-----------------------------------------------------------------------------
(* C26: the expected_row_count test of QBUserDataRetriever.is_query_valid *)

\* 0 <= n and n less than 1000, n being the expected_row_count given
RowCountInRange(c) ==
    /\ c.expected_row_count # None
    /\ 0 <= Val(c.expected_row_count)
    /\ Val(c.expected_row_count) < 1000

\* C26: QBUserDataRetriever's validation accepts an expected_row_count n
\* only when 0 <= n < 1000; a missing, negative or not-less-than-1000 value
\* is rejected with a ValueError before anything is dispatched
C26_RowCountBelow1000 ==
    \A i \in Insts :
        (cfg[i].kind = "QBUserDataRetriever" /\ Over(i)) =>
            /\ log[i].validated => RowCountInRange(cfg[i])
            /\ ~RowCountInRange(cfg[i]) =>
                  /\ result[i].tag = "returned"
                  /\ result[i].val.status = Some("error")
                  /\ result[i].val.error_type = Some("ValueError")
                  /\ log[i] = FreshLog

-----------------------------------------------------------------------------
(* C27: the pagination loop ends *)

-----------------------------------------------------------------------------
(* C28: a page request that fails *)

\* The last call_tool of retriever i missed the cache and its retrieve()
\* raised in _call_api
FailedMiss(i) ==
    /\ Over(i)
    /\ log[i].cache_reads = 1
    /\ ~log[i].hit
    /\ ret[i].tag = "raised"

\* The cache file of retriever i is not there
NoCacheFile(i) ==
    LET path == ResolveDefault(save_file_path[i], cfg[i])
    IN Truthy(path) => Val(path) \notin DOMAIN files

\* The exceptions a page request ends with
PageRequestFailures ==
    RequestFailures \cup {PyException("No valid access token")}

\* C28: when a page request of a cache-miss retrieve() fails (HTTP error or
\* missing token), the exception leaves retrieve(), no page of the retrieval
\* is written to the cache file, also not the pages fetched before the
\* failure, and the next retrieve() for the key misses the cache again
C28_FailureCachesNothing ==
    /\ [][ \A i \in Callers :
              (pc[i] = "fetching" /\ pc'[i] = "idle") =>
                 /\ ret'[i].tag = "raised"
                 /\ ret'[i].exc \in PageRequestFailures
                 /\ log'[i].cache_writes = 0
                 /\ files' = files ]_vars
    /\ [](\A i \in Callers : FailedMiss(i) => NoCacheFile(i))
    /\ [][ \A i \in Callers :
              (FailedMiss(i) /\ calls'[i] = calls[i] + 1 /\ log'[i].cache_reads = 1)
                 => ~log'[i].hit ]_vars

\* The second call_tool missed the cache, as the first had, fetched a first
\* page, and its request of the second page failed; the retriever persists
\* its pages
C28_Witness ==
    /\ FailedMiss(1)
    /\ calls[1] = 2
    /\ Truthy(save_file_path[1])
    /\ Len(responses[1]) = 1
    /\ Len(log[1].sent) = 2
    /\ ret[1].exc \in RequestFailures
    /\ NoCacheFile(1)

-----------------------------------------------------------------------------
(* C29: set_success on a well-formed response *)

\* An item of a line's object: an intent or dialog-act key holds a string
\* or null, any other key holds an object
WellFormedItem(it) ==
    IF InKey("intent", it[1]) \/ InKey("dialog_act", it[1])
    THEN it[2].t \in {"str", "null"}
    ELSE it[2].t = "obj"

\* Every non-blank line of the response is such a JSON object
WellFormed(response) ==
    LET lines == non_blank_lines(strip_code_block(response))
    IN \A k \in 1..Len(lines) :
          /\ lines[k].kind = "json"
          /\ lines[k].value.t = "obj"
          /\ \A n \in 1..Len(lines[k].value.items) :
                WellFormedItem(lines[k].value.items[n])

\* The response is one line whose only item is an intent key holding null
OnlyNullIntent(response) ==
    /\ Len(response) = 1
    /\ response[1].kind = "json"
    /\ response[1].value.t = "obj"
    /\ Len(response[1].value.items) = 1
    /\ InKey("intent", response[1].value.items[1][1])
    /\ response[1].value.items[1][2] = JNull

\* C29: for every response whose non-blank lines are all JSON objects, with
\* intent and dialog-act keys holding a string or null and every other key
\* holding an object, set_success completes without raising; an intent key
\* whose value is null is skipped and contributes nothing
C29_WellFormedNeverRaises ==
    (parse.n > 0 /\ WellFormed(parse.response)) =>
        /\ parse.out.tag = "returned"
        /\ OnlyNullIntent(parse.response) => parser = parse.was

-----------------------------------------------------------------------------
(* C30: success and the records of the first page *)

\* len(QueryResponse.get(<queried entity>, [])) of a page
EntityRecords(c, page) == to_json(c, page)[2]

\* C30: call_tool returns a success result only when the first retrieved
\* page holds at least one record of the queried entity; a QueryResponse
\* that is present but holds no record of that entity yields the NoData
\* error, not success
C30_SuccessNeedsRecords ==
    \A i \in Insts :
        (Over(i) /\ ret[i].tag = "returned" /\ Len(ret[i].val) > 0
           /\ EntityRecords(cfg[i], ret[i].val[1]) = 0) =>
            /\ result[i].tag = "returned"
            /\ result[i].val.status = Some("error")
            /\ result[i].val.error_type = Some("NoData")

====
